---- MODULE Spec2Model ----
(***************************************************************************)
(* Model of the segregated free-list heap allocator of src/allocator.c,    *)
(* built with THREAD_SAFE, ENABLE_STATS, MEMORY_GUARDS, BOUNDARY_TAGS,     *)
(* CACHE_LOCALITY and LEAK_DETECTION all set to 1 and DEBUG_LEVEL 1         *)
(* (src/allocator.h:26-33).                                                *)
(*                                                                         *)
(* Addresses are byte offsets from the base of the backing region.  The    *)
(* region is kept as three views of the same bytes: the block headers      *)
(* that are intact in memory (hdr), the footers that are intact (ftr) and  *)
(* the non-zero data bytes (mem, a set of constant-valued intervals).      *)
(* Every store goes through RawWrite / WriteBlock / WriteFooter, so a      *)
(* store over a header or footer destroys it, and a load of a header from  *)
(* bytes that are neither an intact header nor all zero ends the run       *)
(* (bad = "wild": the C program reads indeterminate bytes there).  A store *)
(* outside the region ends it with bad = "oob", a walk over a cyclic list  *)
(* with bad = "hang"; the state then is the one the call had reached.      *)
(***************************************************************************)
EXTENDS Integers, Sequences, FiniteSets, TLC

\* ---------------------------------------------------------------- constants
HEAP_SIZE == 1048576
ALIGNMENT == 16
SizeofBlock == 64
SizeofBlockFooter == 16
MIN_BLOCK_SIZE == 80
GuardPad == ALIGNMENT * 2
SENTINEL_VALUE == "CAFEBABE"
FOOTER_SENTINEL == "DEADBEEF"
ZeroWord == "00000000"
GUARD_VALUE == 254
NUM_SIZE_CLASSES == 8
SIZE_CLASS_1 == 32
SIZE_CLASS_2 == 64
SIZE_CLASS_3 == 128
SIZE_CLASS_4 == 256
SIZE_CLASS_5 == 512
SIZE_CLASS_6 == 1024
SIZE_CLASS_7 == 2048
CacheLocalityClasses == 4
NULL == 0 - 1
Junk == 0 - 1
FillByte == 171

\* ------------------------------------------------------------------- bounds
MaxOps == 4

VARIABLES heap, free_lists, used_list, initialized, next_alloc_id,
          allocation_records, stats, bad, live, freed, last, hist, nops,
          heap_mutex, thr

vars == <<heap, free_lists, used_list, initialized, next_alloc_id,
          allocation_records, stats, bad, live, freed, last, hist, nops,
          heap_mutex, thr>>

\* Bind(v, F) is F(v): it names an intermediate value v, as a C local does,
\* so that the steps of a function read in the order the code takes them
Bind(v, F(_)) == F(v)

Min2(a, b) == IF a < b THEN a ELSE b
Max2(a, b) == IF a > b THEN a ELSE b

\* A size_t is kept as the 64-bit two's-complement reading of its bits: a
\* value v < 2^63 is v itself and a value 2^64 - d is -d, so SIZE_MAX is -1.
\* Sums and differences modulo 2^64 are then the integer ones, and clearing
\* the low bits (& ~(ALIGNMENT-1)) is rounding down with \div; only the
\* order is different: it is the unsigned one.
SIZE_MAX == 0 - 1
ULe(a, b) == IF (a >= 0) = (b >= 0) THEN a <= b ELSE a >= 0
ULt(a, b) == a # b /\ ULe(a, b)

ALIGN(size) == ((size + (ALIGNMENT - 1)) \div ALIGNMENT) * ALIGNMENT

Classes == 0 .. (NUM_SIZE_CLASSES - 1)

get_size_class(size) ==
    IF ULe(size, SIZE_CLASS_1) THEN 0
    ELSE IF ULe(size, SIZE_CLASS_2) THEN 1
    ELSE IF ULe(size, SIZE_CLASS_3) THEN 2
    ELSE IF ULe(size, SIZE_CLASS_4) THEN 3
    ELSE IF ULe(size, SIZE_CLASS_5) THEN 4
    ELSE IF ULe(size, SIZE_CLASS_6) THEN 5
    ELSE IF ULe(size, SIZE_CLASS_7) THEN 6
    ELSE 7

\* ------------------------------------------------------------ region bytes
ZeroBlock ==
    [sentinel_start |-> ZeroWord, size |-> 0, free |-> FALSE, prev |-> NULL,
     next |-> NULL, request_size |-> 0, address_tag |-> FALSE, alloc_id |-> 0,
     sentinel_end |-> ZeroWord]

ZeroStats ==
    [allocated_bytes |-> 0, free_bytes |-> 0, allocated_blocks |-> 0,
     free_blocks |-> 0, total_allocations |-> 0, total_frees |-> 0,
     failed_allocations |-> 0, fragmentation_count |-> 0,
     largest_free_block |-> 0, smallest_free_block |-> 0,
     requested_bytes |-> 0, overhead_bytes |-> 0,
     class_usage |-> [c \in Classes |-> 0]]

Restrict(f, S) == [x \in S |-> f[x]]

Overlaps(lo, hi, a, b) == lo < b /\ hi > a

\* the intervals of m outside [a, b)
CutRange(m, a, b) ==
    UNION { (IF iv.lo < a THEN {[iv EXCEPT !.hi = Min2(iv.hi, a)]} ELSE {})
            \cup
            (IF iv.hi > b THEN {[iv EXCEPT !.lo = Max2(iv.lo, b)]} ELSE {})
          : iv \in m }

\* what is left of a destroyed header or footer [o, o+len) around [a, b)
Leftover(o, len, a, b) ==
    (IF o < a THEN {[lo |-> o, hi |-> a, v |-> Junk]} ELSE {})
    \cup
    (IF o + len > b THEN {[lo |-> b, hi |-> o + len, v |-> Junk]} ELSE {})

Wild(s) == IF s.bad = "ok" THEN [s EXCEPT !.bad = "wild"] ELSE s
Hang(s) == IF s.bad = "ok" THEN [s EXCEPT !.bad = "hang"] ELSE s
\* a store outside the backing region
Oob(s) == IF s.bad = "ok" THEN [s EXCEPT !.bad = "oob"] ELSE s

\* store of the byte v over [a, b)
RawWrite(s, a, b, v) ==
    IF s.bad # "ok" THEN s
    ELSE IF a >= b THEN s
    ELSE IF a < 0 \/ b > HEAP_SIZE THEN Oob(s)
    ELSE
      LET hitH == {o \in DOMAIN s.hdr : Overlaps(o, o + SizeofBlock, a, b)}
          hitF == {o \in DOMAIN s.ftr : Overlaps(o, o + SizeofBlockFooter, a, b)}
          junk == UNION ({Leftover(o, SizeofBlock, a, b) : o \in hitH}
                         \cup {Leftover(o, SizeofBlockFooter, a, b) : o \in hitF})
      IN [s EXCEPT
            !.hdr = Restrict(s.hdr, DOMAIN s.hdr \ hitH),
            !.ftr = Restrict(s.ftr, DOMAIN s.ftr \ hitF),
            !.mem = CutRange(s.mem, a, b) \cup junk
                    \cup (IF v = 0 THEN {} ELSE {[lo |-> a, hi |-> b, v |-> v]})]

ZeroRange(s, a, b) ==
    /\ \A iv \in s.mem : ~Overlaps(iv.lo, iv.hi, a, b)
    /\ \A o \in DOMAIN s.hdr : ~Overlaps(o, o + SizeofBlock, a, b)
    /\ \A o \in DOMAIN s.ftr : ~Overlaps(o, o + SizeofBlockFooter, a, b)

\* a Block can be loaded from offset o
Readable(s, o) ==
    /\ o >= 0
    /\ o + SizeofBlock <= HEAP_SIZE
    /\ (o \in DOMAIN s.hdr \/ ZeroRange(s, o, o + SizeofBlock))

Hd(s, o) == IF o \in DOMAIN s.hdr THEN s.hdr[o] ELSE ZeroBlock

\* store of a whole Block at offset o
WriteBlock(s, o, rec) ==
    IF s.bad # "ok" THEN s
    ELSE IF o < 0 \/ o + SizeofBlock > HEAP_SIZE THEN Oob(s)
    ELSE Bind(RawWrite(s, o, o + SizeofBlock, 0), LAMBDA s1 :
         [s1 EXCEPT !.hdr = (o :> rec) @@ s1.hdr])

\* store to one field of the Block at offset o
SetField(s, o, f, val) ==
    IF s.bad # "ok" THEN s
    ELSE IF ~Readable(s, o) THEN Wild(s)
    ELSE [s EXCEPT !.hdr = (o :> [Hd(s, o) EXCEPT ![f] = val]) @@ s.hdr]

WriteFooter(s, o, rec) ==
    IF s.bad # "ok" THEN s
    ELSE IF o < 0 \/ o + SizeofBlockFooter > HEAP_SIZE THEN Oob(s)
    ELSE Bind(RawWrite(s, o, o + SizeofBlockFooter, 0), LAMBDA s1 :
         [s1 EXCEPT !.ftr = (o :> rec) @@ s1.ftr])

\* longest walk over a list without a cycle
Fuel(s) == Cardinality(DOMAIN s.hdr) + 2

\* ----------------------------------------------------------- block layout
get_footer(s, block) == block + SizeofBlock + Hd(s, block).size

set_block_footer(s, block) ==
    IF s.bad # "ok" THEN s
    ELSE IF ~Readable(s, block) THEN Wild(s)
    ELSE WriteFooter(s, get_footer(s, block),
                     [size |-> Hd(s, block).size, free |-> Hd(s, block).free,
                      sentinel |-> FOOTER_SENTINEL])

\* result: [blk |-> offset or NULL, bad |-> "ok" | "wild"]
get_prev_physical_block(s, block) ==
    IF block <= 0 THEN [blk |-> NULL, bad |-> "ok"]
    ELSE
      LET f == block - SizeofBlockFooter IN
      IF f \notin DOMAIN s.ftr
      THEN IF /\ \A o \in DOMAIN s.hdr : ~Overlaps(o, o + SizeofBlock, f, block)
              /\ \A o \in DOMAIN s.ftr : ~Overlaps(o, o + SizeofBlockFooter, f, block)
              /\ \A iv \in s.mem : Overlaps(iv.lo, iv.hi, f, block) => iv.v # Junk
           THEN [blk |-> NULL, bad |-> "ok"]
           ELSE [blk |-> NULL, bad |-> "wild"]
      ELSE IF s.ftr[f].sentinel # FOOTER_SENTINEL THEN [blk |-> NULL, bad |-> "ok"]
      ELSE
        LET prev_block == f - s.ftr[f].size - SizeofBlock IN
        IF ~Readable(s, prev_block) THEN [blk |-> NULL, bad |-> "wild"]
        ELSE IF \/ Hd(s, prev_block).sentinel_start # SENTINEL_VALUE
                \/ Hd(s, prev_block).sentinel_end # SENTINEL_VALUE
             THEN [blk |-> NULL, bad |-> "ok"]
             ELSE [blk |-> prev_block, bad |-> "ok"]

get_block_data(block) == block + SizeofBlock

add_guard_bytes(s, ptr, size) ==
    RawWrite(RawWrite(s, ptr - ALIGNMENT, ptr, GUARD_VALUE),
             ptr + size, ptr + size + ALIGNMENT, GUARD_VALUE)

\* ------------------------------------------------------------------- lists
RECURSIVE LocalityWalk(_, _, _, _, _)
\* the loop of add_to_free_list: result [cur, prev, bad]
LocalityWalk(s, current, prev, block, fuel) ==
    IF ~Readable(s, current) THEN [cur |-> current, prev |-> prev, bad |-> "wild"]
    ELSE IF Hd(s, current).next # NULL /\ Hd(s, current).next < block
    THEN IF fuel = 0 THEN [cur |-> current, prev |-> prev, bad |-> "hang"]
         ELSE LocalityWalk(s, Hd(s, current).next, current, block, fuel - 1)
    ELSE [cur |-> current, prev |-> prev, bad |-> "ok"]

LocalityInsert(s, block, size_class) ==
    IF s.bad # "ok" THEN s
    ELSE
      Bind(LocalityWalk(s, s.free_lists[size_class], NULL, block, Fuel(s)),
           LAMBDA w :
      IF w.bad # "ok" THEN [s EXCEPT !.bad = w.bad]
      ELSE IF w.prev = NULL THEN s
      ELSE
        Bind([s EXCEPT !.free_lists[size_class] =
                          Hd(s, s.free_lists[size_class]).next], LAMBDA s1 :
        Bind(IF s1.free_lists[size_class] # NULL
             THEN SetField(s1, s1.free_lists[size_class], "prev", NULL)
             ELSE s1, LAMBDA s2 :
        Bind(SetField(s2, block, "next", Hd(s2, w.cur).next), LAMBDA s3 :
        Bind(IF Hd(s3, block).next # NULL
             THEN SetField(s3, Hd(s3, block).next, "prev", block)
             ELSE s3, LAMBDA s4 :
        Bind(SetField(s4, w.cur, "next", block), LAMBDA s5 :
        SetField(s5, block, "prev", w.cur)))))))

add_to_free_list(s, block) ==
    IF s.bad # "ok" \/ block = NULL THEN s
    ELSE IF ~Readable(s, block) THEN Wild(s)
    ELSE
      Bind(SetField(s, block, "free", TRUE), LAMBDA s1 :
      Bind(get_size_class(Hd(s1, block).size), LAMBDA size_class :
      Bind(SetField(SetField(s1, block, "prev", NULL),
                    block, "next", s1.free_lists[size_class]), LAMBDA s2 :
      Bind(IF s2.free_lists[size_class] # NULL
           THEN SetField(s2, s2.free_lists[size_class], "prev", block)
           ELSE s2, LAMBDA s3 :
      Bind([s3 EXCEPT !.free_lists[size_class] = block], LAMBDA s4 :
      IF size_class < CacheLocalityClasses
      THEN LocalityInsert(s4, block, size_class)
      ELSE s4)))))

remove_from_free_list(s, block) ==
    IF s.bad # "ok" \/ block = NULL THEN s
    ELSE IF ~Readable(s, block) THEN Wild(s)
    ELSE
      Bind(get_size_class(Hd(s, block).size), LAMBDA size_class :
      Bind(IF Hd(s, block).prev # NULL
           THEN SetField(s, Hd(s, block).prev, "next", Hd(s, block).next)
           ELSE s, LAMBDA s1 :
      Bind(IF Hd(s1, block).next # NULL
           THEN SetField(s1, Hd(s1, block).next, "prev", Hd(s1, block).prev)
           ELSE s1, LAMBDA s2 :
      Bind(IF s2.free_lists[size_class] = block
           THEN [s2 EXCEPT !.free_lists[size_class] = Hd(s2, block).next]
           ELSE s2, LAMBDA s3 :
      SetField(SetField(s3, block, "prev", NULL), block, "next", NULL)))))

add_to_used_list(s, block) ==
    IF s.bad # "ok" \/ block = NULL THEN s
    ELSE IF ~Readable(s, block) THEN Wild(s)
    ELSE
      Bind(SetField(s, block, "free", FALSE), LAMBDA s1 :
      Bind(SetField(SetField(s1, block, "prev", NULL),
                    block, "next", s1.used_list), LAMBDA s2 :
      Bind(IF s2.used_list # NULL
           THEN SetField(s2, s2.used_list, "prev", block)
           ELSE s2, LAMBDA s3 :
      [s3 EXCEPT !.used_list = block])))

remove_from_used_list(s, block) ==
    IF s.bad # "ok" \/ block = NULL THEN s
    ELSE IF ~Readable(s, block) THEN Wild(s)
    ELSE
      Bind(IF Hd(s, block).prev # NULL
           THEN SetField(s, Hd(s, block).prev, "next", Hd(s, block).next)
           ELSE s, LAMBDA s1 :
      Bind(IF Hd(s1, block).next # NULL
           THEN SetField(s1, Hd(s1, block).next, "prev", Hd(s1, block).prev)
           ELSE s1, LAMBDA s2 :
      Bind(IF s2.used_list = block
           THEN [s2 EXCEPT !.used_list = Hd(s2, block).next]
           ELSE s2, LAMBDA s3 :
      SetField(SetField(s3, block, "prev", NULL), block, "next", NULL))))

\* -------------------------------------------------------------- placement
NoDiff == 0 - 1

\* else if (diff < smallest_diff), smallest_diff starting at SIZE_MAX
Closer(diff, smallest_diff) == smallest_diff = NoDiff \/ diff < smallest_diff

RECURSIVE ScanClass(_, _, _, _, _, _)
\* the while loop of find_best_fit_block: result [blk, bad]
ScanClass(s, current, size, best_fit, smallest_diff, fuel) ==
    IF current = NULL THEN [blk |-> best_fit, bad |-> "ok"]
    ELSE IF fuel = 0 THEN [blk |-> NULL, bad |-> "hang"]
    ELSE IF ~Readable(s, current) THEN [blk |-> NULL, bad |-> "wild"]
    ELSE
      LET h == Hd(s, current) IN
      IF h.free /\ ULe(size, h.size)
      THEN IF h.size - size = 0 THEN [blk |-> current, bad |-> "ok"]
           ELSE IF Closer(h.size - size, smallest_diff)
           THEN ScanClass(s, h.next, size, current, h.size - size, fuel - 1)
           ELSE ScanClass(s, h.next, size, best_fit, smallest_diff, fuel - 1)
      ELSE ScanClass(s, h.next, size, best_fit, smallest_diff, fuel - 1)

\* the promotion loop of find_best_fit_block
Promote(s, size_class) ==
    LET cs == {c \in Classes : c > size_class /\ s.free_lists[c] # NULL}
    IN IF cs = {} THEN NULL
       ELSE s.free_lists[CHOOSE c \in cs : \A d \in cs : c <= d]

find_best_fit_block(s, size) ==
    Bind(get_size_class(size), LAMBDA size_class :
    Bind(ScanClass(s, s.free_lists[size_class], size, NULL, NoDiff, Fuel(s)),
         LAMBDA r :
    IF r.bad # "ok" THEN r
    ELSE IF r.blk # NULL THEN r
    ELSE [blk |-> Promote(s, size_class), bad |-> "ok"]))

NewFreeBlock(size) ==
    [sentinel_start |-> SENTINEL_VALUE, size |-> size, free |-> TRUE,
     prev |-> NULL, next |-> NULL, request_size |-> 0, address_tag |-> FALSE,
     alloc_id |-> 0, sentinel_end |-> SENTINEL_VALUE]

\* the block never cut
split_block_never(s, block, size) == s

split_block(s, block, size) ==
    IF s.bad # "ok" THEN s
    ELSE IF ~Readable(s, block) THEN Wild(s)
    ELSE
      LET original_size == Hd(s, block).size
          remaining_size == original_size - size - SizeofBlock - SizeofBlockFooter
      IN
      IF remaining_size < MIN_BLOCK_SIZE + GuardPad THEN s
      ELSE
        Bind(set_block_footer(SetField(s, block, "size", size), block),
             LAMBDA s1 :
        Bind(block + SizeofBlock + size + SizeofBlockFooter, LAMBDA new_block :
        Bind(WriteBlock(s1, new_block, NewFreeBlock(remaining_size)), LAMBDA s2 :
        Bind(add_to_free_list(set_block_footer(s2, new_block), new_block),
             LAMBDA s3 :
        [s3 EXCEPT !.stats.free_blocks = @ + 1]))))

MergePrev(s, block) ==
    IF s.bad # "ok" THEN s
    ELSE
      Bind(get_prev_physical_block(s, block), LAMBDA p :
      IF p.bad # "ok" THEN Wild(s)
      ELSE IF p.blk # NULL /\ Hd(s, p.blk).free
      THEN Bind(remove_from_free_list(s, block), LAMBDA s1 :
           Bind(SetField(s1, p.blk, "size",
                         Hd(s1, p.blk).size + SizeofBlock
                         + Hd(s1, block).size + SizeofBlockFooter), LAMBDA s2 :
           Bind(set_block_footer(s2, p.blk), LAMBDA s3 :
           [s3 EXCEPT !.stats.free_blocks = @ - 1])))
      ELSE s)

MergeNext(s, block) ==
    IF s.bad # "ok" THEN s
    ELSE IF ~Readable(s, block) THEN Wild(s)
    ELSE
      LET next_physical == block + SizeofBlock + Hd(s, block).size + SizeofBlockFooter IN
      IF next_physical < HEAP_SIZE - SizeofBlock
      THEN IF ~Readable(s, next_physical) THEN Wild(s)
           ELSE IF Hd(s, next_physical).free
           THEN Bind(Hd(s, next_physical).size, LAMBDA nsize :
                Bind(remove_from_free_list(s, next_physical), LAMBDA s1 :
                Bind(SetField(s1, block, "size",
                              Hd(s1, block).size + SizeofBlock + nsize
                              + SizeofBlockFooter), LAMBDA s2 :
                Bind(set_block_footer(s2, block), LAMBDA s3 :
                [s3 EXCEPT !.stats.free_blocks = @ - 1]))))
           ELSE s
      ELSE s

try_merge_with_neighbors(s, block) ==
    IF s.bad # "ok" THEN s
    ELSE IF block < 0 \/ block >= HEAP_SIZE THEN s
    ELSE MergePrev(MergeNext(s, block), block)

RECURSIVE WalkSizes(_, _, _, _)
\* sizes met on one bucket, as a sequence; <<NULL>> marks a failed walk
WalkSizes(s, current, acc, fuel) ==
    IF current = NULL THEN [sizes |-> acc, bad |-> "ok"]
    ELSE IF fuel = 0 THEN [sizes |-> acc, bad |-> "hang"]
    ELSE IF ~Readable(s, current) THEN [sizes |-> acc, bad |-> "wild"]
    ELSE WalkSizes(s, Hd(s, current).next, Append(acc, Hd(s, current).size), fuel - 1)

SeqMax(q) == IF q = <<>> THEN 0
             ELSE CHOOSE x \in {q[i] : i \in 1 .. Len(q)} :
                     \A j \in 1 .. Len(q) : q[j] <= x
SeqMin(q) == IF q = <<>> THEN 0
             ELSE CHOOSE x \in {q[i] : i \in 1 .. Len(q)} :
                     \A j \in 1 .. Len(q) : q[j] >= x

update_fragmentation_stats(s) ==
    IF s.bad # "ok" THEN s
    ELSE
      Bind([c \in Classes |-> WalkSizes(s, s.free_lists[c], <<>>, Fuel(s))],
           LAMBDA w :
      IF \E c \in Classes : w[c].bad = "hang" THEN Hang(s)
      ELSE IF \E c \in Classes : w[c].bad = "wild" THEN Wild(s)
      ELSE
        Bind(w[0].sizes \o w[1].sizes \o w[2].sizes \o w[3].sizes
             \o w[4].sizes \o w[5].sizes \o w[6].sizes \o w[7].sizes,
             LAMBDA n :
        [s EXCEPT !.stats.fragmentation_count = Len(n),
                  !.stats.largest_free_block = Max2(0, SeqMax(n)),
                  !.stats.smallest_free_block = SeqMin(n)]))

\* ------------------------------------------------------------- public API
EmptyMap == [x \in {} |-> 0]

\* the allocator state as one value
Cur ==
    [hdr |-> heap.hdr, ftr |-> heap.ftr, mem |-> heap.mem,
     free_lists |-> free_lists, used_list |-> used_list,
     initialized |-> initialized, next_alloc_id |-> next_alloc_id,
     allocation_records |-> allocation_records, stats |-> stats, bad |-> bad]

FirstBlockSize == HEAP_SIZE - SizeofBlock - SizeofBlockFooter

\* the heap built anew on every call
AlreadyInitialized_never(s) == FALSE

\* if (initialized) { UNLOCK(); return; }
AlreadyInitialized(s) == s.initialized

initialize(s) ==
    IF s.bad # "ok" \/ AlreadyInitialized(s) THEN s
    ELSE
      Bind([s EXCEPT !.hdr = EmptyMap, !.ftr = EmptyMap, !.mem = {}],
           LAMBDA s1 :
      Bind(WriteBlock(s1, 0, NewFreeBlock(FirstBlockSize)), LAMBDA s2 :
      Bind(add_to_free_list(set_block_footer(s2, 0), 0), LAMBDA s3 :
      [s3 EXCEPT !.stats.free_bytes = Hd(s3, 0).size,
                 !.stats.free_blocks = 1,
                 !.stats.largest_free_block = Hd(s3, 0).size,
                 !.stats.smallest_free_block = Hd(s3, 0).size,
                 !.initialized = TRUE])))

\* cleanup between LOCK and UNLOCK
cleanup_locked(s) ==
    [s EXCEPT !.allocation_records = <<>>,
              !.hdr = EmptyMap, !.ftr = EmptyMap, !.mem = {},
              !.free_lists = [c \in Classes |-> NULL],
              !.used_list = NULL,
              !.initialized = FALSE]

\* the region released and the flag reset, the list heads left as they were
cleanup_keeps_lists(s) ==
    IF s.bad # "ok" \/ ~s.initialized THEN s
    ELSE [s EXCEPT !.allocation_records = <<>>,
                   !.hdr = EmptyMap, !.ftr = EmptyMap, !.mem = {},
                   !.initialized = FALSE]

\* free(heap) releases the region: no byte of it is left to read
cleanup(s) ==
    IF s.bad # "ok" \/ ~s.initialized THEN s
    ELSE cleanup_locked(s)

\* the payload handed out as the block's earlier owner left it
ZeroFill_skip(s, data_ptr, requested_size) == s

\* memset(data_ptr, 0, requested_size); a length of 2^63 or more runs off
\* the region
ZeroFill(s, data_ptr, requested_size) ==
    IF requested_size < 0 THEN Oob(s)
    ELSE RawWrite(s, data_ptr, data_ptr + requested_size, 0)

\* lines 226-275 of my_malloc_internal, once a block was found
Place(s, block, requested_size, aligned_size) ==
    IF ~Readable(s, block) THEN [s |-> Wild(s), ret |-> NULL]
    ELSE
      Bind(IF Hd(s, block).size >= aligned_size + MIN_BLOCK_SIZE
           THEN split_block(s, block, aligned_size)
           ELSE s, LAMBDA s1 :
      Bind(SetField(SetField(SetField(SetField(s1,
                block, "free", FALSE),
                block, "request_size", requested_size),
                block, "address_tag", TRUE),
                block, "alloc_id", s1.next_alloc_id), LAMBDA s2 :
      Bind([s2 EXCEPT !.next_alloc_id = @ + 1], LAMBDA s3 :
      Bind(set_block_footer(
             add_to_used_list(remove_from_free_list(s3, block), block),
             block), LAMBDA s4 :
      Bind(Hd(s4, block).size, LAMBDA bsize :
      Bind([s4 EXCEPT
              !.stats.allocated_bytes = @ + bsize,
              !.stats.allocated_blocks = @ + 1,
              !.stats.free_bytes = @ - bsize,
              !.stats.free_blocks = @ - 1,
              !.stats.overhead_bytes = @ + SizeofBlock + SizeofBlockFooter
                                         + (aligned_size - requested_size),
              !.stats.class_usage[get_size_class(aligned_size)] =
                                         @ + aligned_size], LAMBDA s5 :
      Bind(update_fragmentation_stats(s5), LAMBDA s6 :
      Bind(get_block_data(block) + ALIGNMENT, LAMBDA data_ptr :
      Bind(ZeroFill(add_guard_bytes(s6, data_ptr, requested_size),
                    data_ptr, requested_size), LAMBDA s7 :
      Bind(IF s7.bad # "ok" THEN s7
           ELSE [s7 EXCEPT !.allocation_records =
                   <<[ptr |-> data_ptr, size |-> requested_size,
                      alloc_id |-> Hd(s7, block).alloc_id]>> \o @], LAMBDA s8 :
      [s |-> s8, ret |-> IF s8.bad = "ok" THEN data_ptr ELSE NULL]))))))))))

\* the failed request counted as a served block
NoBlock_counts_block(s) == [s EXCEPT !.stats.allocated_blocks = @ + 1]

\* if (!block) { stats.failed_allocations++; UNLOCK(); return NULL; }
NoBlock(s) == [s EXCEPT !.stats.failed_allocations = @ + 1]

\* my_malloc_internal between LOCK and UNLOCK
my_malloc_internal_locked(s0, requested_size) ==
    Bind([s0 EXCEPT !.stats.total_allocations = @ + 1,
                    !.stats.requested_bytes = @ + requested_size], LAMBDA s1 :
    Bind(ALIGN(requested_size + GuardPad), LAMBDA aligned_size :
    Bind(find_best_fit_block(s1, aligned_size), LAMBDA r :
    IF r.bad # "ok" THEN [s |-> [s1 EXCEPT !.bad = r.bad], ret |-> NULL]
    ELSE IF r.blk = NULL
    THEN [s |-> NoBlock(s1), ret |-> NULL]
    ELSE Place(s1, r.blk, requested_size, aligned_size))))

my_malloc_internal(s, requested_size) ==
    Bind(initialize(s), LAMBDA s0 :
    IF s0.bad # "ok" \/ requested_size = 0 THEN [s |-> s0, ret |-> NULL]
    ELSE my_malloc_internal_locked(s0, requested_size))

RECURSIVE DropRecord(_, _)
\* unlink the first record whose ptr matches
DropRecord(recs, ptr) ==
    IF recs = <<>> THEN recs
    ELSE IF Head(recs).ptr = ptr THEN Tail(recs)
    ELSE <<Head(recs)>> \o DropRecord(Tail(recs), ptr)

\* the double-free test never taken
AlreadyFree_never(s, block) == FALSE

\* if (block->free)
AlreadyFree(s, block) == Hd(s, block).free

\* my_free between LOCK and UNLOCK
my_free_locked(s0, user_ptr) ==
    Bind(user_ptr - ALIGNMENT, LAMBDA ptr :
    Bind(ptr - SizeofBlock, LAMBDA block :
    IF ~Readable(s0, block) THEN Wild(s0)
    ELSE IF AlreadyFree(s0, block) THEN s0
    ELSE
      Bind(Hd(s0, block).size, LAMBDA bsize :
      Bind([s0 EXCEPT
              !.stats.allocated_bytes = @ - bsize,
              !.stats.allocated_blocks = @ - 1,
              !.stats.free_bytes = @ + bsize,
              !.stats.free_blocks = @ + 1,
              !.stats.total_frees = @ + 1,
              !.stats.class_usage[get_size_class(bsize)] = @ - bsize],
           LAMBDA s1 :
      Bind(SetField(SetField(s1, block, "free", TRUE),
                    block, "address_tag", FALSE), LAMBDA s2 :
      Bind(add_to_free_list(remove_from_used_list(s2, block), block),
           LAMBDA s3 :
      Bind(try_merge_with_neighbors(set_block_footer(s3, block), block),
           LAMBDA s4 :
      Bind(IF s4.bad # "ok" THEN s4
           ELSE [s4 EXCEPT !.allocation_records = DropRecord(@, user_ptr)],
           LAMBDA s5 :
      update_fragmentation_stats(s5)))))))))

my_free(s, user_ptr) ==
    Bind(initialize(s), LAMBDA s0 :
    IF s0.bad # "ok" \/ user_ptr = NULL THEN s0
    ELSE my_free_locked(s0, user_ptr))

\* result: [val, bad]
my_malloc_size(s, user_ptr) ==
    IF user_ptr = NULL \/ ~s.initialized THEN [val |-> 0, bad |-> "ok"]
    ELSE
      LET block == user_ptr - ALIGNMENT - SizeofBlock IN
      IF ~Readable(s, block) THEN [val |-> 0, bad |-> "wild"]
      ELSE IF \/ Hd(s, block).sentinel_start # SENTINEL_VALUE
              \/ Hd(s, block).sentinel_end # SENTINEL_VALUE
              \/ Hd(s, block).free
           THEN [val |-> 0, bad |-> "ok"]
           ELSE [val |-> Hd(s, block).request_size, bad |-> "ok"]

\* the bytes of [src, src+k) as intervals moved to dst; metadata reads as Junk
CopyPieces(s, dst, src, k) ==
    { [lo |-> Max2(iv.lo, src) - src + dst, hi |-> Min2(iv.hi, src + k) - src + dst,
       v |-> iv.v] : iv \in {i \in s.mem : Overlaps(i.lo, i.hi, src, src + k)} }
    \cup
    { [lo |-> Max2(o, src) - src + dst,
       hi |-> Min2(o + SizeofBlock, src + k) - src + dst, v |-> Junk]
      : o \in {h \in DOMAIN s.hdr : Overlaps(h, h + SizeofBlock, src, src + k)} }
    \cup
    { [lo |-> Max2(o, src) - src + dst,
       hi |-> Min2(o + SizeofBlockFooter, src + k) - src + dst, v |-> Junk]
      : o \in {f \in DOMAIN s.ftr : Overlaps(f, f + SizeofBlockFooter, src, src + k)} }

\* memcpy(dst, src, k)
MemCopy(s, dst, src, k) ==
    IF s.bad # "ok" \/ k = 0 \/ dst = src THEN s
    ELSE IF src < 0 \/ dst < 0 \/ src + k > HEAP_SIZE \/ dst + k > HEAP_SIZE
    THEN Wild(s)
    ELSE IF Overlaps(src, src + k, dst, dst + k) THEN Wild(s)
    ELSE Bind(CopyPieces(s, dst, src, k), LAMBDA pieces :
         Bind(RawWrite(s, dst, dst + k, 0), LAMBDA s1 :
         [s1 EXCEPT !.mem = @ \cup pieces]))

\* the old block given up although no new one was found
ReallocNoMemory_free(m, user_ptr) == [s |-> my_free(m.s, user_ptr), ret |-> NULL]

\* if (!new_ptr) return NULL
ReallocNoMemory(m, user_ptr) == m

\* my_realloc_internal between LOCK and UNLOCK; move: the block is too
\* small and the call goes on to allocate, copy current_size bytes and free
my_realloc_internal_locked(s, ptr, size) ==
    Bind(my_malloc_size(s, ptr), LAMBDA cs :
    IF cs.bad # "ok"
    THEN [s |-> Wild(s), ret |-> NULL, move |-> FALSE, current_size |-> 0]
    ELSE IF cs.val = 0
    THEN [s |-> s, ret |-> NULL, move |-> FALSE, current_size |-> 0]
    ELSE
      Bind(ptr - ALIGNMENT - SizeofBlock, LAMBDA block :
      Bind(ALIGN(size + GuardPad), LAMBDA required_total_size :
      IF required_total_size <= Hd(s, block).size
      THEN Bind(IF Hd(s, block).size >= required_total_size + MIN_BLOCK_SIZE
                THEN set_block_footer(
                       split_block(s, block, required_total_size), block)
                ELSE s, LAMBDA s1 :
           Bind(add_guard_bytes(
                  SetField(s1, block, "request_size", size), ptr, size),
                LAMBDA s2 :
           [s |-> s2, ret |-> IF s2.bad = "ok" THEN ptr ELSE NULL,
            move |-> FALSE, current_size |-> cs.val]))
      ELSE [s |-> s, ret |-> NULL, move |-> TRUE, current_size |-> cs.val])))

my_realloc_internal(s, ptr, size) ==
    IF ptr = NULL THEN my_malloc_internal(s, size)
    ELSE IF size = 0 THEN [s |-> my_free(s, ptr), ret |-> NULL]
    ELSE
      Bind(my_realloc_internal_locked(s, ptr, size), LAMBDA l :
      IF ~l.move THEN [s |-> l.s, ret |-> l.ret]
      ELSE Bind(my_malloc_internal(l.s, size), LAMBDA m :
           IF m.ret = NULL THEN ReallocNoMemory(m, ptr)
           ELSE Bind(MemCopy(m.s, m.ret, ptr, Min2(l.current_size, size)),
                     LAMBDA s1 :
                Bind(my_free(s1, ptr), LAMBDA s2 :
                [s |-> s2, ret |-> IF s2.bad = "ok" THEN m.ret ELSE NULL]))))

\* the guard never taken
ExceedsSizeMaxDiv_never(size, count) == FALSE

\* size > SIZE_MAX / count, for count > 0.  A modelled size_t is below 2^31
\* or above 2^63: SIZE_MAX / count is SIZE_MAX for count = 1, lies in
\* [2^33, 2^63) for the other counts below 2^31, and is 1 for a count above
\* 2^63.
ExceedsSizeMaxDiv(size, count) ==
    IF count = 1 THEN ULt(SIZE_MAX, size)
    ELSE IF count > 1 THEN size < 0
    ELSE ULt(1, size)

my_calloc_internal(s, count, size) ==
    IF ULt(0, count) /\ ExceedsSizeMaxDiv(size, count)
    THEN [s |-> s, ret |-> NULL]
    ELSE my_malloc_internal(s, count * size)

\* ------------------------------------------------- views used by the claims
RECURSIVE PhysWalk(_, _, _, _)
\* walk from offset o by header + size + footer over intact headers:
\* [blocks |-> sequence of offsets, end |-> where the walk stopped]
PhysWalk(s, o, acc, fuel) ==
    IF o \notin DOMAIN s.hdr \/ o >= HEAP_SIZE \/ fuel = 0
    THEN [blocks |-> acc, end |-> o]
    ELSE PhysWalk(s, o + SizeofBlock + s.hdr[o].size + SizeofBlockFooter,
                  Append(acc, o), fuel - 1)

Phys(s) == PhysWalk(s, 0, <<>>, Fuel(s))
PhysBlocks(s) == {Phys(s).blocks[i] : i \in 1 .. Len(Phys(s).blocks)}

RECURSIVE ListWalk(_, _, _, _)
\* the offsets met from a list head, as a sequence ([bad] as for the walks)
ListWalk(s, current, acc, fuel) ==
    IF current = NULL THEN [seq |-> acc, bad |-> "ok"]
    ELSE IF fuel = 0 THEN [seq |-> acc, bad |-> "hang"]
    ELSE IF ~Readable(s, current) THEN [seq |-> acc, bad |-> "wild"]
    ELSE ListWalk(s, Hd(s, current).next, Append(acc, current), fuel - 1)

Bucket(s, c) == ListWalk(s, s.free_lists[c], <<>>, Fuel(s))
UsedWalk(s) == ListWalk(s, s.used_list, <<>>, Fuel(s))
SeqSet(q) == {q[i] : i \in 1 .. Len(q)}
Occurrences(q, x) == Cardinality({i \in 1 .. Len(q) : q[i] = x})

\* the bytes of [a, a+k) relative to a
Content(s, a, k) == CopyPieces(s, 0, a, k)
ValAt(pieces, x) ==
    IF \E iv \in pieces : iv.lo <= x /\ x < iv.hi
    THEN (CHOOSE iv \in pieces : iv.lo <= x /\ x < iv.hi).v
    ELSE 0
SameContent(A, B, k) ==
    \A x \in ({0} \cup {iv.lo : iv \in A \cup B} \cup {iv.hi : iv \in A \cup B})
             \cap (0 .. (k - 1)) : ValAt(A, x) = ValAt(B, x)

\* --------------------------------------------------------------- the client
\* the threads of the program; NoThread owns an unlocked mutex
Threads == {1, 2}
NoThread == 0

NoCall ==
    [op |-> "none", ptr |-> NULL, size |-> 0, ret |-> NULL, wasLive |-> FALSE,
     fit |-> FALSE, dirty |-> FALSE, k |-> 0, pre |-> {},
     count |-> 0, elem |-> 0, fits |-> FALSE, exit |-> "none"]

Init ==
    /\ heap = [hdr |-> EmptyMap, ftr |-> EmptyMap, mem |-> {}]
    /\ free_lists = [c \in Classes |-> NULL]
    /\ used_list = NULL
    /\ initialized = FALSE
    /\ next_alloc_id = 1
    /\ allocation_records = <<>>
    /\ stats = ZeroStats
    /\ bad = "ok"
    /\ live = EmptyMap
    /\ freed = {}
    /\ last = NoCall
    /\ hist = [onlyAF |-> TRUE]
    /\ nops = 0
    /\ heap_mutex = NoThread
    /\ thr = [t \in Threads |-> <<>>]

\* the allocator's globals after a step
Store(s) ==
    /\ heap' = [hdr |-> s.hdr, ftr |-> s.ftr, mem |-> s.mem]
    /\ free_lists' = s.free_lists
    /\ used_list' = s.used_list
    /\ initialized' = s.initialized
    /\ next_alloc_id' = s.next_alloc_id
    /\ allocation_records' = s.allocation_records
    /\ stats' = s.stats
    /\ bad' = s.bad

\* a call made while no other thread is inside the allocator: LOCK finds the
\* mutex free and every exit path has released it
Commit(s) ==
    /\ Store(s)
    /\ UNCHANGED <<heap_mutex, thr>>

\* some free block of the region has payload >= aligned
SomeFit(s, aligned) ==
    \E o \in PhysBlocks(s) : s.hdr[o].free /\ s.hdr[o].size >= aligned

Returned(op, r, size, src, count, elem) ==
    /\ Commit(r.s)
    /\ live' = IF r.ret = NULL THEN live
               ELSE (r.ret :> [n |-> size, src |-> src]) @@ live
    /\ freed' = freed \ {r.ret}
    /\ last' = [NoCall EXCEPT
                  !.op = op, !.size = size, !.ret = r.ret,
                  !.count = count, !.elem = elem,
                  !.wasLive = r.ret \in DOMAIN live,
                  !.fit = SomeFit(initialize(Cur), ALIGN(size + GuardPad)),
                  !.dirty = r.ret # NULL /\ ~ZeroRange(Cur, r.ret, r.ret + size)]

CallInitialize(max) ==
    /\ bad = "ok" /\ nops < max
    /\ Commit(initialize(Cur))
    /\ last' = [NoCall EXCEPT !.op = "initialize"]
    /\ hist' = [hist EXCEPT !.onlyAF = FALSE]
    /\ nops' = nops + 1
    /\ UNCHANGED <<live, freed>>

Malloc(n, max) ==
    /\ bad = "ok" /\ nops < max
    /\ Returned("malloc", my_malloc_internal(Cur, n), n, "malloc", 0, 0)
    /\ hist' = [hist EXCEPT !.onlyAF = @ /\ (last'.ret # NULL => ~last'.wasLive)]
    /\ nops' = nops + 1

Calloc(count, size, max) ==
    /\ bad = "ok" /\ nops < max
    /\ Returned("calloc", my_calloc_internal(Cur, count, size), count * size,
                "calloc", count, size)
    /\ hist' = [hist EXCEPT !.onlyAF = FALSE]
    /\ nops' = nops + 1

Free(p, max) ==
    /\ bad = "ok" /\ nops < max
    /\ p \in DOMAIN live
    /\ Commit(my_free(Cur, p))
    /\ live' = Restrict(live, DOMAIN live \ {p})
    /\ freed' = freed \cup {p}
    /\ last' = [NoCall EXCEPT !.op = "free", !.ptr = p, !.size = live[p].n,
                              !.wasLive = TRUE]
    /\ nops' = nops + 1
    /\ UNCHANGED hist

DoubleFree(p, max) ==
    /\ bad = "ok" /\ nops < max
    /\ p \in freed
    /\ Commit(my_free(Cur, p))
    /\ last' = [NoCall EXCEPT !.op = "free", !.ptr = p]
    /\ hist' = [hist EXCEPT !.onlyAF = FALSE]
    /\ nops' = nops + 1
    /\ UNCHANGED <<live, freed>>

Realloc(p, m, max) ==
    /\ bad = "ok" /\ nops < max
    /\ p \in DOMAIN live
    /\ m > 0
    /\ \E r \in {my_realloc_internal(Cur, p, m)} : \E k \in {Min2(live[p].n, m)} :
          /\ Commit(r.s)
          /\ live' = IF r.ret = NULL THEN live
                     ELSE (r.ret :> [n |-> m, src |-> "realloc"])
                          @@ Restrict(live, DOMAIN live \ {p})
          /\ freed' = IF r.ret = NULL \/ r.ret = p THEN freed
                      ELSE (freed \cup {p}) \ {r.ret}
          /\ last' = [NoCall EXCEPT
                        !.op = "realloc", !.ptr = p, !.size = m, !.ret = r.ret,
                        !.wasLive = r.ret # p /\ r.ret \in DOMAIN live,
                        !.k = k, !.pre = Content(Cur, p, k),
                        !.fits = /\ (p - ALIGNMENT - SizeofBlock) \in DOMAIN heap.hdr
                                 /\ ULe(ALIGN(m + GuardPad),
                                        Hd(Cur, p - ALIGNMENT - SizeofBlock).size)]
    /\ hist' = [hist EXCEPT !.onlyAF = FALSE]
    /\ nops' = nops + 1

\* cleanup(); every pointer handed out before is dead afterwards
CallCleanup(max) ==
    /\ bad = "ok" /\ nops < max
    /\ Commit(cleanup(Cur))
    /\ live' = EmptyMap
    /\ freed' = {}
    /\ last' = [NoCall EXCEPT !.op = "cleanup", !.wasLive = DOMAIN live # {}]
    /\ hist' = [hist EXCEPT !.onlyAF = FALSE]
    /\ nops' = nops + 1

\* the caller fills its own range, as main does with memset(p, 0xAB, size)
UserWrite(p, max) ==
    /\ bad = "ok" /\ nops < max
    /\ p \in DOMAIN live
    /\ live[p].n > 0
    /\ Commit(RawWrite(Cur, p, p + live[p].n, FillByte))
    /\ last' = [NoCall EXCEPT !.op = "write", !.ptr = p]
    /\ nops' = nops + 1
    /\ UNCHANGED <<live, freed, hist>>

\* ----------------------------------------------------------- specifications
Sizes == {16, 40, 100}
ReallocSizes == {16, 200}
CallocArgs == {<<4, 10>>}

Next ==
    \/ CallInitialize(MaxOps)
    \/ \E n \in Sizes : Malloc(n, MaxOps)
    \/ \E a \in CallocArgs : Calloc(a[1], a[2], MaxOps)
    \/ \E p \in DOMAIN live : Free(p, MaxOps)
    \/ \E p \in freed : DoubleFree(p, MaxOps)
    \/ \E p \in DOMAIN live : \E m \in ReallocSizes : Realloc(p, m, MaxOps)
    \/ \E p \in DOMAIN live : UserWrite(p, MaxOps)

Spec == Init /\ [][Next]_vars

\* allocate and free only
MaxOpsAF == 7
SizesAF == {16, 40, 1000}

NextAF ==
    \/ \E n \in SizesAF : Malloc(n, MaxOpsAF)
    \/ \E p \in DOMAIN live : Free(p, MaxOpsAF)

SpecAF == Init /\ [][NextAF]_vars

\* allocate-and-fill (the loop of main), free and reallocate
MaxOpsRW == 6
SizesRW == {16, 3000}
ReallocSizesRW == {1048000}

MallocFill(n, max) ==
    /\ bad = "ok" /\ nops < max
    /\ \E r \in {my_malloc_internal(Cur, n)} :
          /\ Commit(IF r.ret = NULL THEN r.s
                    ELSE RawWrite(r.s, r.ret, r.ret + n, FillByte))
          /\ live' = IF r.ret = NULL THEN live
                     ELSE (r.ret :> [n |-> n, src |-> "malloc"]) @@ live
          /\ freed' = freed \ {r.ret}
          /\ last' = [NoCall EXCEPT !.op = "mallocfill", !.size = n, !.ret = r.ret,
                                    !.wasLive = r.ret \in DOMAIN live]
    /\ hist' = [hist EXCEPT !.onlyAF = FALSE]
    /\ nops' = nops + 1

NextRW ==
    \/ \E n \in SizesRW : MallocFill(n, MaxOpsRW)
    \/ \E p \in DOMAIN live : Free(p, MaxOpsRW)
    \/ \E p \in DOMAIN live : \E m \in ReallocSizesRW : Realloc(p, m, MaxOpsRW)

SpecRW == Init /\ [][NextRW]_vars

\* allocate, free and shrinking reallocate
MaxOpsSh == 7
SizesSh == {16, 200}
ReallocSizesSh == {16}

NextSh ==
    \/ \E n \in SizesSh : Malloc(n, MaxOpsSh)
    \/ \E p \in DOMAIN live : Free(p, MaxOpsSh)
    \/ \E p \in DOMAIN live : \E m \in ReallocSizesSh : Realloc(p, m, MaxOpsSh)

SpecSh == Init /\ [][NextSh]_vars

\* every public call, cleanup included
MaxOpsCl == 4

NextCl ==
    \/ CallInitialize(MaxOpsCl)
    \/ CallCleanup(MaxOpsCl)
    \/ \E n \in Sizes : Malloc(n, MaxOpsCl)
    \/ \E a \in CallocArgs : Calloc(a[1], a[2], MaxOpsCl)
    \/ \E p \in DOMAIN live : Free(p, MaxOpsCl)
    \/ \E p \in freed : DoubleFree(p, MaxOpsCl)
    \/ \E p \in DOMAIN live : \E m \in ReallocSizes : Realloc(p, m, MaxOpsCl)
    \/ \E p \in DOMAIN live : UserWrite(p, MaxOpsCl)

SpecCl == Init /\ [][NextCl]_vars

\* requests beyond the region and beyond the width of size_t
MaxOpsNum == 4
SizesNum == {16, 2000000, SIZE_MAX, SIZE_MAX - 20, SIZE_MAX - 100}
CallocArgsNum == {<<4, 10>>, <<1, 2000000>>, <<SIZE_MAX, 2>>, <<2, SIZE_MAX>>,
                  <<SIZE_MAX, SIZE_MAX>>, <<0, SIZE_MAX>>, <<SIZE_MAX, 0>>,
                  <<SIZE_MAX - 100, 1>>, <<1, SIZE_MAX>>}

NextNum ==
    \/ \E n \in SizesNum : Malloc(n, MaxOpsNum)
    \/ \E a \in CallocArgsNum : Calloc(a[1], a[2], MaxOpsNum)
    \/ \E p \in DOMAIN live : Free(p, MaxOpsNum)

SpecNum == Init /\ [][NextNum]_vars

\* ------------------------------------------------------------ two threads
\* Each thread runs one public call at a time.  thr[t] is its call stack,
\* innermost frame first, empty between calls; a frame holds the function,
\* the position reached in it, its arguments and its locals.  A step is one
\* LOCK, one UNLOCK, or the code between two of them; the code between LOCK
\* and UNLOCK is one step, the tests the code makes before LOCK are steps of
\* their own.
MaxOpsMT == 4
SizesMT == {0, 16}
ReallocSizesMT == {200}

Frame(fn, pc, ptr, size, n) ==
    [fn |-> fn, pc |-> pc, ptr |-> ptr, size |-> size, n |-> n,
     ret |-> NULL, exit |-> "none", current_size |-> 0, new_ptr |-> NULL]

Idle(t) == thr[t] = <<>>
Top(t) == Head(thr[t])
At(t, fn, pc) == ~Idle(t) /\ Top(t).fn = fn /\ Top(t).pc = pc

\* the thread goes on in the same function
Goto(t, f) == thr' = [thr EXCEPT ![t] = <<f>> \o Tail(thr[t])]
\* the thread enters a callee
Enter(t, f, callee) == thr' = [thr EXCEPT ![t] = <<callee, f>> \o Tail(thr[t])]

\* the exit paths that call UNLOCK() before they return
Unlocks_not_double_free(fn, exit) == ~(fn = "free" /\ exit = "double_free")

\* every exit path taken after LOCK() calls UNLOCK() before it returns
Unlocks(fn, exit) ==
    \/ fn = "initialize" /\ exit \in {"already", "done"}
    \/ fn = "cleanup" /\ exit = "done"
    \/ fn = "malloc" /\ exit \in {"no_fit", "done"}
    \/ fn = "free" /\ exit \in {"double_free", "done"}
    \/ fn = "realloc" /\ exit \in {"invalid", "in_place", "move"}

\* pthread_mutex_unlock(&heap_mutex)
UNLOCK(t, fn, exit) ==
    heap_mutex' = IF Unlocks(fn, exit) THEN NoThread ELSE heap_mutex

\* a public call returns to the program
ReturnToCaller(t, f, ret) ==
    /\ thr' = [thr EXCEPT ![t] = <<>>]
    /\ last' = [NoCall EXCEPT !.op = f.fn, !.ptr = f.ptr, !.size = f.size,
                              !.ret = ret, !.exit = f.exit]
    /\ live' =
         IF f.fn \in {"malloc", "realloc"} /\ ret # NULL
         THEN (ret :> [n |-> f.size, src |-> f.fn]) @@ live
         ELSE IF f.fn = "realloc" /\ f.n >= 0 /\ initialized
         THEN (f.ptr :> [n |-> f.n, src |-> "malloc"]) @@ live
         ELSE live
    /\ freed' =
         IF f.fn \in {"malloc", "realloc"} /\ ret # NULL
         THEN (IF f.fn = "realloc" /\ ret # f.ptr THEN freed \cup {f.ptr} ELSE freed)
              \ {ret}
         ELSE IF f.fn = "free" /\ f.ptr # NULL /\ initialized
         THEN freed \cup {f.ptr}
         ELSE freed

\* return from the innermost frame f with the value ret
Return(t, f, ret) ==
    IF Len(thr[t]) = 1 THEN ReturnToCaller(t, f, ret)
    ELSE /\ thr' = [thr EXCEPT ![t] =
                      <<[Head(Tail(thr[t])) EXCEPT !.new_ptr = ret]>>
                      \o Tail(Tail(thr[t]))]
         /\ UNCHANGED <<live, freed, last>>

\* the program calls fn(ptr, size) on thread t
Call(t, fn, ptr, size) ==
    /\ bad = "ok" /\ nops < MaxOpsMT
    /\ Idle(t)
    /\ thr' = [thr EXCEPT ![t] =
                 <<Frame(fn,
                         CASE fn = "initialize" -> "lock"
                           [] fn = "size_of" -> "read"
                           [] fn = "realloc" -> "entry"
                           [] OTHER -> "check",
                         ptr, size,
                         IF ptr \in DOMAIN live THEN live[ptr].n ELSE 0 - 1)>>]
    /\ live' = IF fn \in {"free", "realloc"}
               THEN Restrict(live, DOMAIN live \ {ptr}) ELSE live
    /\ nops' = nops + 1
    /\ hist' = [hist EXCEPT !.onlyAF = FALSE]
    /\ UNCHANGED <<heap, free_lists, used_list, initialized, next_alloc_id,
                   allocation_records, stats, bad, freed, last, heap_mutex>>

\* if (!initialized) initialize();   read outside the mutex
CheckInitialized(t) ==
    /\ bad = "ok"
    /\ \E fn \in {"malloc", "free"} : At(t, fn, "check")
    /\ IF initialized
       THEN Goto(t, [Top(t) EXCEPT !.pc = "test"])
       ELSE Enter(t, [Top(t) EXCEPT !.pc = "test"],
                  Frame("initialize", "lock", NULL, 0, 0 - 1))
    /\ UNCHANGED <<heap, free_lists, used_list, initialized, next_alloc_id,
                   allocation_records, stats, bad, live, freed, last, hist,
                   nops, heap_mutex>>

\* if (!initialized) return;   cleanup reads the flag outside the mutex
CleanupCheck(t) ==
    /\ bad = "ok"
    /\ At(t, "cleanup", "check")
    /\ IF initialized
       THEN Goto(t, [Top(t) EXCEPT !.pc = "lock"])
            /\ UNCHANGED <<live, freed, last>>
       ELSE Return(t, Top(t), NULL)
    /\ UNCHANGED <<heap, free_lists, used_list, initialized, next_alloc_id,
                   allocation_records, stats, bad, hist, nops, heap_mutex>>

\* if (requested_size == 0) return NULL;   if (!ptr) return;
TestArgument(t) ==
    /\ bad = "ok"
    /\ \E fn \in {"malloc", "free"} : At(t, fn, "test")
    /\ IF (Top(t).fn = "malloc" /\ Top(t).size = 0)
          \/ (Top(t).fn = "free" /\ Top(t).ptr = NULL)
       THEN Return(t, Top(t), NULL)
       ELSE Goto(t, [Top(t) EXCEPT !.pc = "lock"])
            /\ UNCHANGED <<live, freed, last>>
    /\ UNCHANGED <<heap, free_lists, used_list, initialized, next_alloc_id,
                   allocation_records, stats, bad, hist, nops, heap_mutex>>

\* my_realloc_internal before LOCK(): the two calls it hands on
ReallocEntry(t) ==
    /\ bad = "ok"
    /\ At(t, "realloc", "entry")
    /\ IF Top(t).ptr = NULL
       THEN Enter(t, [Top(t) EXCEPT !.pc = "done"],
                  Frame("malloc", "check", NULL, Top(t).size, 0 - 1))
       ELSE IF Top(t).size = 0
       THEN Enter(t, [Top(t) EXCEPT !.pc = "freed"],
                  Frame("free", "check", Top(t).ptr, 0, 0 - 1))
       ELSE Goto(t, [Top(t) EXCEPT !.pc = "lock"])
    /\ UNCHANGED <<heap, free_lists, used_list, initialized, next_alloc_id,
                   allocation_records, stats, bad, live, freed, last, hist,
                   nops, heap_mutex>>

\* pthread_mutex_lock(&heap_mutex): the thread waits until the mutex is free
LOCK(t) ==
    /\ bad = "ok"
    /\ ~Idle(t) /\ Top(t).pc = "lock"
    /\ heap_mutex = NoThread
    /\ heap_mutex' = t
    /\ Goto(t, [Top(t) EXCEPT !.pc = "body"])
    /\ UNCHANGED <<heap, free_lists, used_list, initialized, next_alloc_id,
                   allocation_records, stats, bad, live, freed, last, hist, nops>>

\* a load from the region after free(heap)
Released(s) == IF s.initialized THEN s ELSE Wild(s)

\* the code of the function between LOCK() and the UNLOCK() it reaches:
\* [s, ret, exit, current_size]
Locked(s, f) ==
    CASE f.fn = "initialize" ->
           [s |-> initialize(s), ret |-> NULL, current_size |-> 0,
            exit |-> IF AlreadyInitialized(s) THEN "already" ELSE "done"]
      [] f.fn = "cleanup" ->
           [s |-> cleanup_locked(s), ret |-> NULL, current_size |-> 0,
            exit |-> "done"]
      [] f.fn = "malloc" ->
           Bind(my_malloc_internal_locked(s, f.size), LAMBDA r :
           [s |-> r.s, ret |-> r.ret, current_size |-> 0,
            exit |-> IF r.ret = NULL THEN "no_fit" ELSE "done"])
      [] f.fn = "free" ->
           [s |-> my_free_locked(Released(s), f.ptr), ret |-> NULL,
            current_size |-> 0,
            exit |-> IF AlreadyFree(s, f.ptr - ALIGNMENT - SizeofBlock)
                     THEN "double_free" ELSE "done"]
      [] f.fn = "realloc" ->
           Bind(my_realloc_internal_locked(s, f.ptr, f.size), LAMBDA l :
           [s |-> l.s, ret |-> l.ret, current_size |-> l.current_size,
            exit |-> IF l.move THEN "move"
                     ELSE IF l.ret = NULL THEN "invalid" ELSE "in_place"])

\* the critical section of the call thread t is in
CriticalSection(t) ==
    /\ bad = "ok"
    /\ ~Idle(t) /\ Top(t).pc = "body"
    /\ \E r \in {Locked(Cur, Top(t))} :
          /\ Store(r.s)
          /\ Goto(t, [Top(t) EXCEPT !.pc = "unlock", !.ret = r.ret,
                                    !.exit = r.exit,
                                    !.current_size = r.current_size])
    /\ live' = IF Top(t).fn = "cleanup" THEN EmptyMap ELSE live
    /\ freed' = IF Top(t).fn = "cleanup" THEN {} ELSE freed
    /\ UNCHANGED <<last, hist, nops, heap_mutex>>

\* UNLOCK(); return ...;   a reallocate that has to move goes on to
\* my_malloc_internal(size, file, line)
Leave(t) ==
    /\ bad = "ok"
    /\ ~Idle(t) /\ Top(t).pc = "unlock"
    /\ UNLOCK(t, Top(t).fn, Top(t).exit)
    /\ IF Top(t).fn = "realloc" /\ Top(t).exit = "move"
       THEN /\ Enter(t, [Top(t) EXCEPT !.pc = "copy"],
                     Frame("malloc", "check", NULL, Top(t).size, 0 - 1))
            /\ UNCHANGED <<live, freed, last>>
       ELSE Return(t, Top(t), Top(t).ret)
    /\ UNCHANGED <<heap, free_lists, used_list, initialized, next_alloc_id,
                   allocation_records, stats, bad, hist, nops>>

\* if (!new_ptr) return NULL;  memcpy(new_ptr, user_ptr, ...);  my_free(user_ptr)
\* the copy runs after UNLOCK()
ReallocCopy(t) ==
    /\ bad = "ok"
    /\ At(t, "realloc", "copy")
    /\ IF Top(t).new_ptr = NULL
       THEN /\ Return(t, Top(t), NULL)
            /\ UNCHANGED <<heap, free_lists, used_list, initialized,
                           next_alloc_id, allocation_records, stats, bad>>
       ELSE /\ Store(MemCopy(Released(Cur), Top(t).new_ptr, Top(t).ptr,
                             Min2(Top(t).current_size, Top(t).size)))
            /\ Enter(t, [Top(t) EXCEPT !.pc = "done"],
                     Frame("free", "check", Top(t).ptr, 0, 0 - 1))
            /\ UNCHANGED <<live, freed, last>>
    /\ UNCHANGED <<hist, nops, heap_mutex>>

\* return new_ptr;   return NULL after my_free(ptr)
ReallocDone(t) ==
    /\ bad = "ok"
    /\ \E pc \in {"done", "freed"} : At(t, "realloc", pc)
    /\ Return(t, Top(t), IF Top(t).pc = "done" THEN Top(t).new_ptr ELSE NULL)
    /\ UNCHANGED <<heap, free_lists, used_list, initialized, next_alloc_id,
                   allocation_records, stats, bad, hist, nops, heap_mutex>>

\* my_malloc_size(ptr): the header is read without LOCK()
SizeRead(t) ==
    /\ bad = "ok"
    /\ At(t, "size_of", "read")
    /\ \E r \in {my_malloc_size(Cur, Top(t).ptr)} :
          /\ bad' = r.bad
          /\ Return(t, Top(t), r.val)
    /\ UNCHANGED <<heap, free_lists, used_list, initialized, next_alloc_id,
                   allocation_records, stats, hist, nops, heap_mutex>>

NextMT ==
    \/ \E p \in DOMAIN live : (\E t \in Threads : Idle(t)) /\ UserWrite(p, MaxOpsMT)
    \/ \E t \in Threads :
       \/ Call(t, "initialize", NULL, 0)
       \/ Call(t, "cleanup", NULL, 0)
       \/ \E n \in SizesMT : Call(t, "malloc", NULL, n)
       \/ \E p \in DOMAIN live \cup freed \cup {NULL} : Call(t, "free", p, 0)
       \/ \E p \in DOMAIN live \cup freed : \E m \in ReallocSizesMT :
             Call(t, "realloc", p, m)
       \/ \E p \in DOMAIN live : Call(t, "size_of", p, 0)
       \/ CheckInitialized(t)
       \/ CleanupCheck(t)
       \/ TestArgument(t)
       \/ ReallocEntry(t)
       \/ LOCK(t)
       \/ CriticalSection(t)
       \/ Leave(t)
       \/ ReallocCopy(t)
       \/ ReallocDone(t)
       \/ SizeRead(t)

SpecMT == Init /\ [][NextMT]_vars

\* ------------------------------------------------------------------ claims
SizeOf(p) == my_malloc_size(Cur, p).val
Settled == initialized /\ bad = "ok"

\* C1: the user ranges [p, p + size_of(p)) of two distinct live pointers are
\* disjoint, and no allocating call returns a pointer that is still live.
C1_LiveRangesDisjoint ==
    Settled =>
      /\ \A p, q \in DOMAIN live :
            p # q => ~Overlaps(p, p + SizeOf(p), q, q + SizeOf(q))
      /\ (last.op \in {"malloc", "calloc", "realloc"} /\ last.ret # NULL)
            => ~last.wasLive

\* C2: allocate(n), n > 0, returns null only when no free block of the region
\* has payload >= align_up(n + guard padding).
C2_NullOnlyWhenNoFit ==
    (Settled /\ last.op \in {"malloc", "calloc"} /\ last.size > 0 /\ last.ret = NULL)
      => ~last.fit

\* C3: the physical walk from offset 0 by header + size + footer visits intact
\* blocks and ends exactly at HEAP_SIZE.
\* (A walk that stops on a header that a data store partly overwrote is not
\* counted against the claim: its size field may have survived.)
C3_BlocksTileRegion ==
    Settled => \/ Phys(Cur).end = HEAP_SIZE
               \/ /\ Phys(Cur).end < HEAP_SIZE
                  /\ \E iv \in heap.mem :
                        /\ iv.v = Junk
                        /\ Overlaps(iv.lo, iv.hi, Phys(Cur).end,
                                    Phys(Cur).end + SizeofBlock)

AllBuckets(o) == {c \in Classes : o \in SeqSet(Bucket(Cur, c).seq)}
ListsWalkable ==
    /\ \A c \in Classes : Bucket(Cur, c).bad = "ok"
    /\ UsedWalk(Cur).bad = "ok"

\* C4: every block is on exactly one list: a free block in exactly one bucket
\* and not in the used list, a used block only in the used list, and the lists
\* hold nothing but current blocks.
C4_ExactlyOneList ==
    Settled =>
      /\ ListsWalkable
      /\ \A o \in PhysBlocks(Cur) :
            IF Hd(Cur, o).free
            THEN /\ Cardinality(AllBuckets(o)) = 1
                 /\ \A c \in Classes : Occurrences(Bucket(Cur, c).seq, o) <= 1
                 /\ o \notin SeqSet(UsedWalk(Cur).seq)
            ELSE /\ AllBuckets(o) = {}
                 /\ Occurrences(UsedWalk(Cur).seq, o) = 1
      /\ \A c \in Classes : SeqSet(Bucket(Cur, c).seq) \subseteq PhysBlocks(Cur)
      /\ SeqSet(UsedWalk(Cur).seq) \subseteq PhysBlocks(Cur)

\* C5: every free block sits in the bucket class_of(its current size).
C5_BucketMatchesSize ==
    Settled =>
      \A c \in Classes : \A o \in SeqSet(Bucket(Cur, c).seq) :
          (o \in PhysBlocks(Cur) /\ Hd(Cur, o).free)
             => get_size_class(Hd(Cur, o).size) = c

NextPhys(o) == o + SizeofBlock + Hd(Cur, o).size + SizeofBlockFooter

\* C6: after a public call no free block has a free physical neighbour.
C6_NoAdjacentFree ==
    Settled =>
      \A o \in PhysBlocks(Cur) :
          (Hd(Cur, o).free /\ NextPhys(o) \in PhysBlocks(Cur))
             => ~Hd(Cur, NextPhys(o)).free

\* C7: once every pointer returned by allocate has been freed exactly once,
\* the heap is a single free block of payload HEAP_SIZE - header - footer
\* (so the last free has not stored outside the region either).
C7_AllFreedGivesOneBlock ==
    (initialized /\ bad \in {"ok", "oob"} /\ hist.onlyAF /\ DOMAIN live = {})
      => /\ bad = "ok"
         /\ Phys(Cur).blocks = <<0>>
         /\ Hd(Cur, 0).free
         /\ Hd(Cur, 0).size = FirstBlockSize

\* C8: size_of(p) is the requested n while p, returned by allocate, is live,
\* and 0 right after free(p).
C8_SizeOfRoundTrip ==
    Settled =>
      /\ \A p \in DOMAIN live :
            live[p].src \in {"malloc", "calloc"}
               => my_malloc_size(Cur, p) = [val |-> live[p].n, bad |-> "ok"]
      /\ (last.op = "free" /\ last.wasLive) => SizeOf(last.ptr) = 0

\* C9: a successful allocate(n) or zero_allocate(k, s) returns n (k*s) zero bytes.
C9_ZeroInitialised ==
    (bad = "ok" /\ last.op \in {"malloc", "calloc"} /\ last.ret # NULL)
      => ZeroRange(Cur, last.ret, last.ret + last.size)

C9_Witness ==
    /\ bad = "ok" /\ last.op \in {"malloc", "calloc"} /\ last.ret # NULL
    /\ last.dirty
    /\ ZeroRange(Cur, last.ret, last.ret + last.size)

\* C10: a successful reallocate(p, m) returns a pointer whose first min(n, m)
\* bytes equal the bytes p held before the call.
C10_ReallocPreserves ==
    (bad = "ok" /\ last.op = "realloc" /\ last.ret # NULL)
      => SameContent(last.pre, Content(Cur, last.ret, last.k), last.k)

\* C11: when align_up(m + guard padding) fits in the payload of the block
\* behind the live pointer p, reallocate(p, m) returns p and size_of(p) is m
\* afterwards; otherwise a successful reallocate returns q # p and p's block
\* has left the used list.
C11_ReallocInPlaceOrMoved ==
    (bad = "ok" /\ last.op = "realloc") =>
      /\ last.fits => (last.ret = last.ptr /\ SizeOf(last.ptr) = last.size)
      /\ (~last.fits /\ last.ret # NULL) =>
            /\ last.ret # last.ptr
            /\ (last.ptr - ALIGNMENT - SizeofBlock) \notin SeqSet(UsedWalk(Cur).seq)

\* C12: when reallocate(p, m) needs a fresh block and my_malloc_internal finds
\* none, it returns NULL and the original allocation is untouched: the region
\* (headers, footers, contents), the lists and the leak table are the same
\* after the call, so p is still in the used list with its request_size,
\* its bytes and its record.
C12_FailedReallocKeepsOld ==
    [][(last'.op = "realloc" /\ last'.ret = NULL /\ ~last'.fits /\ bad' = "ok")
         => /\ heap' = heap
            /\ free_lists' = free_lists
            /\ used_list' = used_list
            /\ allocation_records' = allocation_records]_vars

\* a grow request on a valid used block failed in my_malloc_internal
C12_Witness ==
    /\ last.op = "realloc" /\ last.ret = NULL /\ ~last.fits /\ bad = "ok"
    /\ last.ptr \in DOMAIN live
    /\ SizeOf(last.ptr) = live[last.ptr].n
    /\ (last.ptr - ALIGNMENT - SizeofBlock) \in SeqSet(UsedWalk(Cur).seq)
    /\ stats.failed_allocations > 0
    /\ \E i \in 1 .. Len(allocation_records) :
          allocation_records[i].ptr = last.ptr

\* C13: free(p) on a pointer whose block is already marked free changes
\* nothing: every header and footer, every free-list bucket, the used list,
\* the leak table and every statistics counter are the same before and after
\* the call.
C13_DoubleFreeChangesNothing ==
    [][(/\ last'.op = "free"
        /\ initialized
        /\ (last'.ptr - ALIGNMENT - SizeofBlock) \in DOMAIN heap.hdr
        /\ heap.hdr[last'.ptr - ALIGNMENT - SizeofBlock].free)
         => /\ heap' = heap
            /\ free_lists' = free_lists
            /\ used_list' = used_list
            /\ allocation_records' = allocation_records
            /\ stats' = stats
            /\ bad' = "ok"]_vars

\* a second free of a freed pointer has just run, after one counted free
C13_Witness ==
    /\ last.op = "free" /\ ~last.wasLive /\ last.ptr \in freed
    /\ Hd(Cur, last.ptr - ALIGNMENT - SizeofBlock).free
    /\ stats.total_frees >= 1
    /\ bad = "ok"

\* count * elem exceeds SIZE_MAX, stated on the mathematical product: a
\* modelled size_t is either below 2^31 or within 2^31 of 2^64 (negative in
\* the two's-complement reading)
ProductOverflows(count, elem) ==
    \/ count < 0 /\ elem < 0
    \/ count < 0 /\ elem >= 2
    \/ elem < 0 /\ count >= 2

\* C14: zero_allocate(count, elem_size) with count > 0 and elem_size >
\* SIZE_MAX / count returns NULL and leaves lists, blocks, counters and leak
\* table unchanged; in every other case it does exactly what
\* allocate(count * elem_size) does, the product not wrapping.
C14_CallocGuard ==
    [][(last'.op = "calloc" /\ nops' = nops + 1) =>
         IF ProductOverflows(last'.count, last'.elem)
         THEN /\ last'.ret = NULL
              /\ UNCHANGED <<heap, free_lists, used_list, initialized,
                             next_alloc_id, allocation_records, stats, bad>>
         ELSE \E r \in {my_malloc_internal(Cur, last'.count * last'.elem)} :
                /\ last'.ret = r.ret
                /\ heap' = [hdr |-> r.s.hdr, ftr |-> r.s.ftr, mem |-> r.s.mem]
                /\ free_lists' = r.s.free_lists
                /\ used_list' = r.s.used_list
                /\ allocation_records' = r.s.allocation_records
                /\ stats' = r.s.stats
                /\ bad' = r.s.bad]_vars

\* zero_allocate(SIZE_MAX, 2) has just been refused while a block is in use
C14_Witness ==
    /\ last.op = "calloc" /\ last.count = SIZE_MAX /\ last.elem = 2
    /\ last.ret = NULL /\ bad = "ok"
    /\ used_list # NULL
    /\ stats.failed_allocations = 0

\* C15: for every requested size n larger than the backing region, also when
\* n + guard padding or its round-up wraps modulo 2^64, allocate(n) and
\* zero_allocate(1, n) return NULL, complete normally and write no payload
\* byte.
C15_OversizeRefused ==
    [][(/\ nops' = nops + 1
        /\ \/ last'.op = "malloc"
           \/ last'.op = "calloc" /\ last'.count = 1
        /\ ULt(HEAP_SIZE, last'.size))
         => /\ last'.ret = NULL
            /\ bad' = "ok"
            /\ heap'.mem = heap.mem]_vars

\* ------------------------------------ the tallies of check_heap_integrity
RECURSIVE SumSizes(_, _)
\* used_bytes += current->size along one list
SumSizes(s, q) ==
    IF q = <<>> THEN 0 ELSE Hd(s, Head(q)).size + SumSizes(s, Tail(q))

RECURSIVE FreeTally(_, _)
\* [count, bytes] over the buckets c .. NUM_SIZE_CLASSES - 1
FreeTally(s, c) ==
    IF c >= NUM_SIZE_CLASSES THEN [count |-> 0, bytes |-> 0]
    ELSE Bind(FreeTally(s, c + 1), LAMBDA rest :
         [count |-> Len(Bucket(s, c).seq) + rest.count,
          bytes |-> SumSizes(s, Bucket(s, c).seq) + rest.bytes])

UsedTally(s) ==
    [count |-> Len(UsedWalk(s).seq), bytes |-> SumSizes(s, UsedWalk(s).seq)]

\* C16: after every public call stats.free_bytes is the sum of size over the
\* blocks in the free-list buckets and stats.allocated_bytes is the sum of
\* size over the blocks in the used list.
C16_ByteCountersMatchLists ==
    (Settled /\ ListsWalkable) =>
      /\ stats.free_bytes = FreeTally(Cur, 0).bytes
      /\ stats.allocated_bytes = UsedTally(Cur).bytes

\* C17: after every public call, cleanup followed by re-initialization
\* included, stats.free_blocks is the number of blocks reachable from the
\* free-list buckets and stats.allocated_blocks is the number of blocks in the
\* used list, the two comparisons check_heap_integrity makes.
C17_BlockCountersMatchLists ==
    (Settled /\ ListsWalkable) =>
      /\ stats.free_blocks = FreeTally(Cur, 0).count
      /\ stats.allocated_blocks = UsedTally(Cur).count

\* the records of the leak table whose key is the user pointer p
RecordsOf(p) ==
    {i \in 1 .. Len(allocation_records) : allocation_records[i].ptr = p}

\* C18: after every public call the leak table holds exactly one record per
\* live allocation, keyed by its user pointer, and every record belongs to a
\* live allocation whose block has free == false and the record's alloc_id;
\* so free(p) has removed exactly p's record and a double free none.
C18_OneRecordPerLive ==
    Settled =>
      /\ \A p \in DOMAIN live : Cardinality(RecordsOf(p)) = 1
      /\ \A i \in 1 .. Len(allocation_records) :
            /\ allocation_records[i].ptr \in DOMAIN live
            /\ ~Hd(Cur, allocation_records[i].ptr - ALIGNMENT - SizeofBlock).free
            /\ Hd(Cur, allocation_records[i].ptr - ALIGNMENT - SizeofBlock).alloc_id
                 = allocation_records[i].alloc_id

Fresh ==
    [hdr |-> EmptyMap, ftr |-> EmptyMap, mem |-> {},
     free_lists |-> [c \in Classes |-> NULL], used_list |-> NULL,
     initialized |-> FALSE, next_alloc_id |-> 1,
     allocation_records |-> <<>>, stats |-> ZeroStats, bad |-> "ok"]

\* blocks, contents and lists of two allocator states are the same
SameHeap(a, b) ==
    /\ a.hdr = b.hdr /\ a.ftr = b.ftr /\ a.mem = b.mem
    /\ a.free_lists = b.free_lists /\ a.used_list = b.used_list

C24_EveryCallTerminates == bad # "hang"

\* C25: every block in the used list satisfies request_size + 2*ALIGNMENT <=
\* size, so the user range and both guard bands lie inside its payload (the
\* block chosen for allocate(n), by the class scan or by promotion, was free
\* and had payload >= align_up(n + 2*ALIGNMENT)).
C25_UsedBlocksHoldRequest ==
    Settled =>
      \A o \in SeqSet(UsedWalk(Cur).seq) :
         Hd(Cur, o).request_size + 2 * ALIGNMENT <= Hd(Cur, o).size

\* the blocks of bucket class_of(aligned) with size >= aligned
FittingInClass(aligned) ==
    {o \in SeqSet(Bucket(Cur, get_size_class(aligned)).seq) :
        Hd(Cur, o).size >= aligned}

\* C26: when bucket class_of(aligned) holds at least one block with
\* size >= aligned, allocate uses a block of that bucket whose size is minimal
\* among the fitting blocks of that bucket (an exact-size block if there is
\* one), and not a block of a higher bucket.
C26_BestFitInClass ==
    [][(/\ nops' = nops + 1
        /\ last'.op = "malloc"
        /\ initialized /\ bad' = "ok"
        /\ Bucket(Cur, get_size_class(ALIGN(last'.size + GuardPad))).bad = "ok"
        /\ FittingInClass(ALIGN(last'.size + GuardPad)) # {})
         => /\ last'.ret # NULL
            /\ (last'.ret - ALIGNMENT - SizeofBlock)
                  \in FittingInClass(ALIGN(last'.size + GuardPad))
            /\ \A o \in FittingInClass(ALIGN(last'.size + GuardPad)) :
                  Hd(Cur, last'.ret - ALIGNMENT - SizeofBlock).size
                     <= Hd(Cur, o).size]_vars

\* C27: allocate splits the chosen block exactly when original - aligned -
\* sizeof(Block) - sizeof(BlockFooter) >= MIN_BLOCK_SIZE + 2*ALIGNMENT; after
\* a split the allocated block has payload exactly aligned and a new free
\* block of payload original - aligned - sizeof(Block) - sizeof(BlockFooter)
\* follows it immediately; otherwise the allocated block keeps its whole
\* original payload and no block is created.
C27_SplitExactlyWhenRoom ==
    [][(/\ nops' = nops + 1
        /\ last'.op = "malloc" /\ last'.ret # NULL /\ bad' = "ok")
         => \E blk \in {last'.ret - ALIGNMENT - SizeofBlock} :
            \E aligned \in {ALIGN(last'.size + GuardPad)} :
            \E original \in {Hd(initialize(Cur), blk).size} :
              IF original - aligned - SizeofBlock - SizeofBlockFooter
                    >= MIN_BLOCK_SIZE + 2 * ALIGNMENT
              THEN \E new \in {blk + SizeofBlock + aligned + SizeofBlockFooter} :
                     /\ heap'.hdr[blk].size = aligned
                     /\ new \in DOMAIN heap'.hdr
                     /\ heap'.hdr[new].free
                     /\ heap'.hdr[new].size
                          = original - aligned - SizeofBlock - SizeofBlockFooter
              ELSE /\ heap'.hdr[blk].size = original
                   /\ DOMAIN heap'.hdr \subseteq DOMAIN initialize(Cur).hdr]_vars

\* allocate has just taken a block larger than the aligned request without
\* cutting it: the remainder would have been too small
C27_Witness ==
    /\ last.op = "malloc" /\ last.ret # NULL /\ bad = "ok"
    /\ Hd(Cur, last.ret - ALIGNMENT - SizeofBlock).size > ALIGN(last.size + GuardPad)
    /\ Hd(Cur, last.ret - ALIGNMENT - SizeofBlock).size
         < ALIGN(last.size + GuardPad) + SizeofBlock + SizeofBlockFooter
           + MIN_BLOCK_SIZE + 2 * ALIGNMENT
    /\ stats.total_frees > 0

\* the blocks a walk meets: over the region, the buckets or the used list
KnownBlocks ==
    PhysBlocks(Cur) \cup SeqSet(UsedWalk(Cur).seq)
    \cup UNION {SeqSet(Bucket(Cur, c).seq) : c \in Classes}

C29_FooterMirrorsHeader ==
    Settled =>
      \A i \in 1 .. Len(Phys(Cur).blocks) :
        \E o \in {Phys(Cur).blocks[i]} :
          /\ get_footer(Cur, o) \in DOMAIN heap.ftr
          /\ heap.ftr[get_footer(Cur, o)].size = heap.hdr[o].size
          /\ heap.ftr[get_footer(Cur, o)].free = heap.hdr[o].free
          /\ heap.ftr[get_footer(Cur, o)].sentinel = FOOTER_SENTINEL
          /\ i > 1 =>
               /\ get_prev_physical_block(Cur, o).bad = "ok"
               /\ get_prev_physical_block(Cur, o).blk = Phys(Cur).blocks[i - 1]

\* every byte of [a, b) holds the value v
AllBytes(s, a, b, v) ==
    /\ \A o \in DOMAIN s.hdr : ~Overlaps(o, o + SizeofBlock, a, b)
    /\ \A o \in DOMAIN s.ftr : ~Overlaps(o, o + SizeofBlockFooter, a, b)
    /\ \A x \in ({a} \cup {iv.lo : iv \in s.mem} \cup {iv.hi : iv \in s.mem})
                \cap (a .. (b - 1)) : ValAt(s.mem, x) = v

\* C30: when callers write only inside their own [p, p + size_of(p)), the 16
\* bytes immediately before and the 16 bytes immediately after every live
\* user range all equal 0xFE after every public call, also after an in-place
\* reallocate changed the requested size.
C30_GuardBandsIntact ==
    Settled =>
      \A p \in DOMAIN live :
         /\ AllBytes(Cur, p - ALIGNMENT, p, GUARD_VALUE)
         /\ AllBytes(Cur, p + live[p].n, p + live[p].n + ALIGNMENT, GUARD_VALUE)

\* thread t takes a step
Steps(t) == thr'[t] # thr[t]

\* thread u is between LOCK() and UNLOCK() of an allocate, free or reallocate
InCriticalSection(u) ==
    /\ heap_mutex = u
    /\ ~Idle(u)
    /\ Top(u).fn \in {"malloc", "free", "realloc"}
    /\ Top(u).pc \in {"body", "unlock"}

\* C22: size_of(ptr) reads the block header under the global mutex: with
\* several threads it never reads free, request_size or the sentinels of a
\* block while another thread is inside an allocate, free or reallocate
\* critical section.
C22_SizeOfReadsUnderMutex ==
    [][\A t \in Threads :
          (At(t, "size_of", "read") /\ Steps(t))
             => \A u \in Threads \ {t} : ~InCriticalSection(u)]_vars

\* C23: an allocate whose critical section runs after the critical section of
\* a cleanup on another thread runs on a re-initialized heap: its search is
\* never executed with initialized == false and the region released, and it
\* does not return NULL because cleanup ran in between.
C23_AllocateAfterCleanupReinitializes ==
    [][\A t \in Threads :
          (At(t, "malloc", "body") /\ Steps(t))
             => /\ initialized
                /\ (Top(t).size \in SizesMT /\ SomeFit(Cur, ALIGN(Top(t).size + GuardPad))
                      /\ bad' = "ok")
                     => thr'[t][1].ret # NULL]_vars

\* thread t stores to the block headers or footers, the lists, the
\* statistics, the leak table, next_alloc_id or the initialized flag
WritesMetadata(t) ==
    /\ Steps(t)
    /\ \/ heap'.hdr # heap.hdr
       \/ heap'.ftr # heap.ftr
       \/ free_lists' # free_lists
       \/ used_list' # used_list
       \/ stats' # stats
       \/ allocation_records' # allocation_records
       \/ next_alloc_id' # next_alloc_id
       \/ initialized' # initialized

\* thread t stores to the backing region
WritesHeap(t) == Steps(t) /\ heap' # heap

\* C21 as stated: no call returns while it holds the mutex, and the heap, the
\* lists, the statistics, the leak table and next_alloc_id are written by the
\* allocator only while the writing thread holds the mutex.
C21_AllWritesUnderMutex ==
    [][\A t \in Threads :
          /\ Idle(t)' => heap_mutex' # t
          /\ (WritesMetadata(t) \/ WritesHeap(t)) => heap_mutex = t]_vars

\* C21: every public operation releases the mutex on every exit path it
\* acquired it on (no fit, double free and invalid pointer in reallocate
\* included), so no call returns while holding the mutex; the block headers
\* and footers, the lists, the statistics, the leak table, next_alloc_id and
\* the initialized flag are written only by the thread that holds it, and the
\* only store to the region made without it is the copy of a moving
\* reallocate into the block it has just allocated.
C21_MutexReleasedMetadataUnderMutex ==
    [][\A t \in Threads :
          /\ Idle(t)' => heap_mutex' # t
          /\ WritesMetadata(t) => heap_mutex = t
          /\ (WritesHeap(t) /\ ~At(t, "realloc", "copy")) => heap_mutex = t]_vars

\* a double free has returned through its early exit while the other thread
\* is inside a call, and the mutex is free
C21_Witness ==
    /\ last.op = "free" /\ last.exit = "double_free"
    /\ heap_mutex = NoThread
    /\ \E t \in Threads : Idle(t)
    /\ \E u \in Threads : ~Idle(u) /\ Top(u).pc = "lock"
    /\ bad = "ok"

\* the search of allocate(n) on the heap as the call finds it
SearchOf(n) == find_best_fit_block(initialize(Cur), ALIGN(n + GuardPad))

MaxOpsNull == 5

\* my_free(NULL)
FreeNull(max) ==
    /\ bad = "ok" /\ nops < max
    /\ Commit(my_free(Cur, NULL))
    /\ last' = [NoCall EXCEPT !.op = "free", !.ptr = NULL]
    /\ hist' = [hist EXCEPT !.onlyAF = FALSE]
    /\ nops' = nops + 1
    /\ UNCHANGED <<live, freed>>

NextNull ==
    \/ FreeNull(MaxOpsNull)
    \/ CallCleanup(MaxOpsNull)
    \/ \E n \in Sizes : Malloc(n, MaxOpsNull)
    \/ \E p \in DOMAIN live : Free(p, MaxOpsNull)

SpecNull == Init /\ [][NextNull]_vars

\* C32: free(NULL) is a no-op in every allocator state, initialized or not:
\* the initialized flag, the region, every list, every counter and the leak
\* table are the same before and after the call.
C32_FreeNullIsNoOp ==
    [][(nops' = nops + 1 /\ last'.op = "free" /\ last'.ptr = NULL)
         => /\ initialized' = initialized
            /\ heap' = heap
            /\ free_lists' = free_lists
            /\ used_list' = used_list
            /\ stats' = stats
            /\ allocation_records' = allocation_records
            /\ next_alloc_id' = next_alloc_id
            /\ bad' = "ok"]_vars

\* the free blocks of the region, in address order
FreeSizes(s) ==
    SelectSeq([i \in 1 .. Len(Phys(s).blocks) |->
                 IF Hd(s, Phys(s).blocks[i]).free
                 THEN Hd(s, Phys(s).blocks[i]).size ELSE 0 - 1],
              LAMBDA x : x >= 0)
FreeBlocksOf(s) == {o \in PhysBlocks(s) : Hd(s, o).free}

\* C33: after every allocate, free or reallocate that changed the set of free
\* blocks, fragmentation_count is the number of free blocks and
\* largest_free_block / smallest_free_block are the largest / smallest size
\* among them (0 when there is none).
C33_FragmentationStatsCurrent ==
    [][(/\ nops' = nops + 1
        /\ last'.op \in {"malloc", "free", "realloc"}
        /\ initialized /\ bad' = "ok"
        /\ \/ FreeBlocksOf(Cur)' # FreeBlocksOf(Cur)
           \/ FreeSizes(Cur)' # FreeSizes(Cur))
         => /\ stats'.fragmentation_count = Len(FreeSizes(Cur)')
            /\ stats'.largest_free_block =
                 (IF FreeSizes(Cur)' = <<>> THEN 0 ELSE SeqMax(FreeSizes(Cur)'))
            /\ stats'.smallest_free_block =
                 (IF FreeSizes(Cur)' = <<>> THEN 0 ELSE SeqMin(FreeSizes(Cur)'))]_vars

\* C34: no free subtracts more from class_usage[i] than the allocations still
\* counted there added: no class_usage entry goes below zero (wraps as a
\* size_t), and when no allocation is live every class_usage[i] is 0, also
\* after a block was handed out unsplit with a payload larger than the
\* aligned request.
C34_ClassUsageBalanced ==
    Settled =>
      /\ \A i \in Classes : stats.class_usage[i] >= 0
      /\ (DOMAIN live = {} /\ used_list = NULL)
            => \A i \in Classes : stats.class_usage[i] = 0

\* the bucket of class c read from its head: ascending addresses, the head
\* without a predecessor and every prev link pointing at the block before
AscendingBucket(s, c) ==
    /\ Bucket(s, c).bad = "ok"
    /\ \E q \in {Bucket(s, c).seq} :
          /\ \A i \in 1 .. Len(q) - 1 : q[i] < q[i + 1]
          /\ \A i \in 1 .. Len(q) :
                /\ Hd(s, q[i]).prev = (IF i = 1 THEN NULL ELSE q[i - 1])
                /\ Hd(s, q[i]).next = (IF i = Len(q) THEN NULL ELSE q[i + 1])

\* C35: in each of the four smallest size classes the free-list bucket is
\* kept in ascending address order with consistent prev/next links and the
\* lowest address at the head, after every insertion and every removal.
C35_SmallBucketsAscending ==
    Settled => \A c \in 0 .. CacheLocalityClasses - 1 : AscendingBucket(Cur, c)

====
